---- MODULE Spec2Model ----
(***************************************************************************)
(* A model of the speech-synthesis stream client: Communicate (its         *)
(* constructor and its stream() generator), the frame parsing it relies on *)
(* (get_headers_and_data and the inline binary frame check), its caller    *)
(* text_to_speech, the Subtitle object and the timestamp format.           *)
(*                                                                         *)
(* Byte strings are sequences of byte values 0..255.  Python str values    *)
(* that the code only matches against regular expressions are sequences of *)
(* characters, each a one-character string.                                *)
(***************************************************************************)
EXTENDS Integers, Sequences, FiniteSets, TLC

VARIABLES
    args,               \* the arguments given to Communicate(...)
    self,               \* the fields of the Communicate object
    pc,                 \* where the constructor / the stream() generator stands
    opened,             \* the websocket was opened (ws_connect entered)
    sent,               \* the frames sent on the websocket, in order
    wire,               \* messages delivered by the service and not read yet
    read,               \* messages the receive loop has read, in order
    items,              \* metadata items of the current frame still to iterate
    events,             \* the events stream() has yielded, in order
    audio_was_received, \* the local flag of stream()
    outcome,            \* how stream() / the constructor ended, or NoOutcome
    raw,                \* input of the frame codec
    parsed,             \* result of the frame codec on raw
    subtitle,           \* the Subtitle object: its sentences and its words
    audio_chunks,       \* the local list of text_to_speech
    ticks,              \* the argument (unit) of format_timestamp
    returned            \* what the last call of the caller returned, or NoReturn

\* the variables of the callers of stream(): text_to_speech and what it uses
caller == <<subtitle, audio_chunks, ticks, returned>>

vars == <<args, self, pc, opened, sent, wire, read, items, events,
          audio_was_received, outcome, raw, parsed, caller>>

(***************************************************************************)
(* Bounds of the model.                                                    *)
(***************************************************************************)
MaxFrames == 3      \* messages the service delivers in one session
MaxRawLen == 7      \* length of the byte strings given to the frame codec
MaxRateLen == 4     \* length of the rate strings given to the constructor

(***************************************************************************)
(* Python sequence primitives, as the code uses them.                      *)
(***************************************************************************)
Min(a, b) == IF a < b THEN a ELSE b
Max(a, b) == IF a > b THEN a ELSE b

\* s[lo:hi] for 0-based lo >= 0 and any integer hi (negative counts from the end)
PySlice(s, lo, hi) ==
    LET h == IF hi < 0 THEN Max(Len(s) + hi, 0) ELSE Min(hi, Len(s))
    IN  IF lo >= h THEN <<>> ELSE SubSeq(s, lo + 1, h)

\* s[lo:]
PyFrom(s, lo) == PySlice(s, Min(lo, Len(s)), Len(s))

\* s.find(pat): the 0-based index of the first occurrence of pat, else -1
PyFind(s, pat) ==
    LET hits == {i \in 0..(Len(s) - Len(pat)) : SubSeq(s, i + 1, i + Len(pat)) = pat}
    IN  IF hits = {} THEN -1
        ELSE CHOOSE i \in hits : \A j \in hits : i <= j

\* s.split(sep): non-overlapping, left to right; never an empty list
RECURSIVE PySplit(_, _)
PySplit(s, sep) ==
    LET i == PyFind(s, sep)
    IN  IF i = -1 THEN <<s>>
        ELSE <<PySlice(s, 0, i)>> \o PySplit(PyFrom(s, i + Len(sep)), sep)

\* int.from_bytes(b, "big") of a two-byte string
FromBytesBig2(b) == b[1] * 256 + b[2]

(***************************************************************************)
(* get_headers_and_data                                                    *)
(***************************************************************************)
CR == 13
LF == 10
COLON == 58
CRLF == <<CR, LF>>
Delimiter == <<CR, LF, CR, LF>>

NoHeaders == [k \in {} |-> <<>>]

\* line.split(b":", 1) unpacked into key, value: needs a colon in the line
HasColon(line) == PyFind(line, <<COLON>>) # -1
KeyOf(line) == PySlice(line, 0, PyFind(line, <<COLON>>))
ValueOf(line) == PyFrom(line, PyFind(line, <<COLON>>) + 1)

\* the header region the loop iterates: data[: data.find(b"\r\n\r\n")]
HeaderRegion(data) == PySlice(data, 0, PyFind(data, Delimiter))

\* the payload returned: data[data.find(b"\r\n\r\n") + 4:]
PayloadOf(data) == PyFrom(data, PyFind(data, Delimiter) + 4)

\* headers[key] = value for each line in order: the last line of a key wins
HeadersOf(lines) ==
    [k \in {KeyOf(lines[i]) : i \in 1..Len(lines)} |->
        LET last == CHOOSE i \in 1..Len(lines) :
                        /\ KeyOf(lines[i]) = k
                        /\ \A j \in 1..Len(lines) : KeyOf(lines[j]) = k => j <= i
        IN  ValueOf(lines[last])]

get_headers_and_data(data) ==
    LET lines == PySplit(HeaderRegion(data), CRLF)
    IN  IF \E i \in 1..Len(lines) : ~HasColon(lines[i])
        THEN [err |-> "ValueError", headers |-> NoHeaders, data |-> <<>>]
        ELSE [err |-> "none", headers |-> HeadersOf(lines), data |-> PayloadOf(data)]

\* dict.get(key): <<value>> when present, <<>> for None
DictGet(h, k) == IF k \in DOMAIN h THEN <<h[k]>> ELSE <<>>

(***************************************************************************)
(* The binary frame check of stream()                                      *)
(***************************************************************************)
\* a variant of parseBinaryFrame that cuts the payload at header_length
parseBinaryFrame_CutsAtHeaderLength(data) ==
    IF Len(data) < 2
    THEN [err |-> "UnexpectedResponse", data |-> <<>>]
    ELSE LET header_length == FromBytesBig2(PySlice(data, 0, 2))
         IN  IF Len(data) < header_length + 2
             THEN [err |-> "MissingAudioData", data |-> <<>>]
             ELSE [err |-> "none", data |-> PyFrom(data, header_length)]

parseBinaryFrame(data) ==
    IF Len(data) < 2
    THEN [err |-> "UnexpectedResponse", data |-> <<>>]
    ELSE LET header_length == FromBytesBig2(PySlice(data, 0, 2))
         IN  IF Len(data) < header_length + 2
             THEN [err |-> "MissingAudioData", data |-> <<>>]
             ELSE [err |-> "none", data |-> PyFrom(data, header_length + 2)]

(***************************************************************************)
(* Communicate.__init__: the regular expressions and the normalisation of  *)
(* the voice name.  A str is a sequence of one-character strings.          *)
(***************************************************************************)
NL == "\n"
Lower == {"a", "b", "c", "d", "e", "f", "g", "h", "i", "j", "k", "l", "m",
          "n", "o", "p", "q", "r", "s", "t", "u", "v", "w", "x", "y", "z"}
Upper == {"A", "B", "C", "D", "E", "F", "G", "H", "I", "J", "K", "L", "M",
          "N", "O", "P", "Q", "R", "S", "T", "U", "V", "W", "X", "Y", "Z"}
Digit == {"0", "1", "2", "3", "4", "5", "6", "7", "8", "9"}

\* "Microsoft Server Speech Text to Speech Voice"
VoicePrefix ==
    <<"M", "i", "c", "r", "o", "s", "o", "f", "t", " ", "S", "e", "r", "v", "e", "r", " ", "S", "p", "e", "e", "c", "h", " ", "T", "e", "x", "t", " ", "t", "o", " ", "S", "p", "e", "e", "c", "h", " ", "V", "o", "i", "c", "e">>
NeuralSuffix == <<"N", "e", "u", "r", "a", "l">>

StartsWith(s, p) == Len(s) >= Len(p) /\ SubSeq(s, 1, Len(p)) = p
EndsWith(s, p) == Len(s) >= Len(p) /\ SubSeq(s, Len(s) - Len(p) + 1, Len(s)) = p

\* '.' of a pattern: any character but a newline
AllDot(s) == \A i \in 1..Len(s) : s[i] # NL

\* the subjects a pattern ending in '$' may match in full: the string itself,
\* or the string without its last character when that is a newline
DollarSubjects(s) ==
    {s} \cup (IF Len(s) >= 1 /\ s[Len(s)] = NL THEN {SubSeq(s, 1, Len(s) - 1)} ELSE {})

\* [+-]\d+ followed by the literal unit, in full
FullSignedNumber(t, unit) ==
    /\ Len(t) >= 2 + Len(unit)
    /\ t[1] \in {"+", "-"}
    /\ EndsWith(t, unit)
    /\ \A i \in 2..(Len(t) - Len(unit)) : t[i] \in Digit

\* a variant of MatchRate whose pattern makes the sign optional
MatchRate_SignOptional(rate) ==
    \E t \in DollarSubjects(rate) :
        FullSignedNumber(t, <<"%">>) \/ FullSignedNumber(<<"+">> \o t, <<"%">>)

\* re.match(r"^[+-]\d+%$", rate) is not None
MatchRate(rate) == \E t \in DollarSubjects(rate) : FullSignedNumber(t, <<"%">>)

\* re.match(r"^[+-]\d+%$", volume) is not None
MatchVolume(volume) == \E t \in DollarSubjects(volume) : FullSignedNumber(t, <<"%">>)

\* re.match(r"^[+-]\d+Hz$", pitch) is not None
MatchPitch(pitch) == \E t \in DollarSubjects(pitch) : FullSignedNumber(t, <<"H", "z">>)

\* s.find(c) for a single character c
FindChar(s, c) == PyFind(s, <<c>>)

\* ([a-z]{2,})-([A-Z]{2,})-(.+Neural) in full: the three groups, or <<>>
ShortVoiceGroups(t) ==
    LET i == FindChar(t, "-")
        rest1 == PyFrom(t, i + 1)
        j == FindChar(rest1, "-")
        lang == PySlice(t, 0, i)
        region == PySlice(rest1, 0, j)
        name == PyFrom(rest1, j + 1)
    IN  IF /\ i # -1
           /\ j # -1
           /\ Len(lang) >= 2 /\ (\A n \in 1..Len(lang) : lang[n] \in Lower)
           /\ Len(region) >= 2 /\ (\A n \in 1..Len(region) : region[n] \in Upper)
           /\ Len(name) >= Len(NeuralSuffix) + 1
           /\ EndsWith(name, NeuralSuffix)
           /\ AllDot(name)
        THEN <<lang, region, name>>
        ELSE <<>>

\* is_voice_format(voice): the groups of the match, or <<>> for None
is_voice_format(voice) ==
    LET hits == {t \in DollarSubjects(voice) : ShortVoiceGroups(t) # <<>>}
    IN  IF hits = {} THEN <<>>
        ELSE ShortVoiceGroups(CHOOSE t \in hits : \A u \in hits : Len(u) <= Len(t))

\* the rewrite of a short voice name into the canonical form
NormalizeVoice(groups) ==
    LET lang == groups[1]
        k == FindChar(groups[3], "-")
        region == IF k # -1 THEN groups[2] \o <<"-">> \o PySlice(groups[3], 0, k)
                  ELSE groups[2]
        name == IF k # -1 THEN PyFrom(groups[3], k + 1) ELSE groups[3]
    IN  VoicePrefix \o <<" ", "(">> \o lang \o <<"-">> \o region
            \o <<",", " ">> \o name \o <<")">>

\* Microsoft Server Speech Text to Speech Voice \(.+,.+\) in full
FullCanonicalVoice(t) ==
    LET open == VoicePrefix \o <<" ", "(">>
        inner == PySlice(t, Len(open), Len(t) - 1)
    IN  /\ StartsWith(t, open)
        /\ Len(t) >= Len(open) + 1
        /\ t[Len(t)] = ")"
        /\ AllDot(inner)
        /\ \E c \in 2..(Len(inner) - 1) : inner[c] = ","

\* re.match(r"^Microsoft Server Speech Text to Speech Voice \(.+,.+\)$", v) is not None
MatchCanonicalVoice(v) == \E t \in DollarSubjects(v) : FullCanonicalVoice(t)

\* isinstance(proxy, str) fails for a proxy that is neither None nor a str
ProxyRejected(proxy) == proxy.type # "NoneType" /\ proxy.type # "str"

NoSelf == [constructed |-> FALSE]
NoOutcome == [kind |-> "none", arg |-> <<>>]

\* the object __init__ leaves, or the exception it raises
ConstructResult(a) ==
    LET match == is_voice_format(a.voice)
        voice == IF match # <<>> THEN NormalizeVoice(match) ELSE a.voice
    IN  IF ~MatchCanonicalVoice(voice)
        THEN [self |-> NoSelf, raised |-> [kind |-> "ValueError", arg |-> "voice"]]
        ELSE IF ~MatchRate(a.rate)
        THEN [self |-> NoSelf, raised |-> [kind |-> "ValueError", arg |-> "rate"]]
        ELSE IF ~MatchVolume(a.volume)
        THEN [self |-> NoSelf, raised |-> [kind |-> "ValueError", arg |-> "volume"]]
        ELSE IF ~MatchPitch(a.pitch)
        THEN [self |-> NoSelf, raised |-> [kind |-> "ValueError", arg |-> "pitch"]]
        ELSE IF ProxyRejected(a.proxy)
        THEN [self |-> NoSelf, raised |-> [kind |-> "TypeError", arg |-> "proxy"]]
        ELSE [self |-> [constructed |-> TRUE,
                        text |-> a.text,
                        voice |-> voice,
                        rate |-> a.rate,
                        volume |-> a.volume,
                        pitch |-> a.pitch,
                        proxy |-> a.proxy,
                        word_boundary |-> a.word_boundary,
                        sentence_boundary |-> a.sentence_boundary],
              raised |-> NoOutcome]

(***************************************************************************)
(* Communicate.stream: the messages of the websocket, the metadata payload *)
(* and the events.                                                         *)
(*                                                                         *)
(* A message is [type, data]: type is the aiohttp WSMsgType the loop sees  *)
(* ("TEXT", "BINARY", "ERROR") or "CLOSED", on which the websocket's       *)
(* iterator stops; data is a byte string.                                  *)
(***************************************************************************)
PathKey == <<80, 97, 116, 104>>                       \* b"Path"
TurnEnd == <<116, 117, 114, 110, 46, 101, 110, 100>>                   \* b"turn.end"
TurnStart == <<116, 117, 114, 110, 46, 115, 116, 97, 114, 116>>               \* b"turn.start"
Response == <<114, 101, 115, 112, 111, 110, 115, 101>>                  \* b"response"
AudioMetadata == <<97, 117, 100, 105, 111, 46, 109, 101, 116, 97, 100, 97, 116, 97>>       \* b"audio.metadata"
UnknownError == <<85, 110, 107, 110, 111, 119, 110, 32, 101, 114, 114, 111, 114>>         \* "Unknown error"

(***************************************************************************)
(* The JSON text of a metadata payload is abbreviated: one code above 255  *)
(* stands for the text {"Metadata":[ , one for ]} and one for the text of  *)
(* each metadata item; {} is spelled out.  Any other payload of the model  *)
(* is not JSON.                                                            *)
(***************************************************************************)
JsonOpen == 256
JsonClose == 257
ItemWord == 260
ItemSentence == 261
ItemSessionEnd == 262
ItemBogus == 263
ItemNoData == 264

ItemCodes == {ItemWord, ItemSentence, ItemSessionEnd, ItemBogus, ItemNoData}

\* the item a code stands for
ItemOf(code) ==
    CASE code = ItemWord ->
            [Type |-> "WordBoundary", hasData |-> TRUE,
             Offset |-> 100, Duration |-> 50,
             Text |-> <<"H", "e", "l", "l", "o">>]
      [] code = ItemSentence ->
            [Type |-> "SentenceBoundary", hasData |-> TRUE,
             Offset |-> 100, Duration |-> 900,
             Text |-> <<"H", "e", "l", "l", "o", " ", "w", "o", "r", "l", "d", ".">>]
      [] code = ItemSessionEnd ->
            [Type |-> "SessionEnd", hasData |-> FALSE,
             Offset |-> 0, Duration |-> 0, Text |-> <<>>]
      [] code = ItemBogus ->
            [Type |-> "Bogus", hasData |-> FALSE,
             Offset |-> 0, Duration |-> 0, Text |-> <<>>]
      [] code = ItemNoData ->
            [Type |-> "WordBoundary", hasData |-> FALSE,
             Offset |-> 0, Duration |-> 0, Text |-> <<>>]

\* json.loads(data)["Metadata"]: the item list, or the exception raised
json_loads_Metadata(data) ==
    IF data = <<123, 125>>
    THEN [err |-> "KeyError", Metadata |-> <<>>]
    ELSE IF /\ Len(data) >= 2
            /\ data[1] = JsonOpen
            /\ data[Len(data)] = JsonClose
            /\ \A i \in 2..(Len(data) - 1) : data[i] \in ItemCodes
    THEN [err |-> "none",
          Metadata |-> [i \in 1..(Len(data) - 2) |-> ItemOf(data[i + 1])]]
    ELSE [err |-> "JSONDecodeError", Metadata |-> <<>>]

AudioEvent(data) == [type |-> "audio", data |-> data]

\* a variant of BoundaryEvent that gives the duration as the end
BoundaryEvent_EndIsDuration(item) ==
    [type |-> item.Type,
     timestamp |-> <<item.Offset, item.Duration>>,
     text |-> item.Text]

BoundaryEvent(item) ==
    [type |-> item.Type,
     timestamp |-> <<item.Offset, item.Offset + item.Duration>>,
     text |-> item.Text]

Raise(kind, arg) == [kind |-> kind, arg |-> arg]
Success == [kind |-> "success", arg |-> <<>>]

\* a variant of RunItems that passes over the items of unrecognized Type
RECURSIVE RunItems_SkipsUnknown(_)
RunItems_SkipsUnknown(its) ==
    IF its = <<>>
    THEN [kind |-> "exhausted", event |-> <<>>, rest |-> <<>>, raised |-> NoOutcome]
    ELSE LET item == Head(its)
             meta_type == item.Type
         IN  IF meta_type \in {"WordBoundary", "SentenceBoundary"}
             THEN IF ~item.hasData
                  THEN [kind |-> "raise", event |-> <<>>, rest |-> <<>>,
                        raised |-> Raise("KeyError", <<>>)]
                  ELSE [kind |-> "yield", event |-> <<BoundaryEvent(item)>>,
                        rest |-> Tail(its), raised |-> NoOutcome]
             ELSE RunItems_SkipsUnknown(Tail(its))

(***************************************************************************)
(* The body of "for item in ...": run from the given remaining items until *)
(* the generator yields, raises, or the list is exhausted.                 *)
(***************************************************************************)
RECURSIVE RunItems(_)
RunItems(its) ==
    IF its = <<>>
    THEN [kind |-> "exhausted", event |-> <<>>, rest |-> <<>>, raised |-> NoOutcome]
    ELSE LET item == Head(its)
             meta_type == item.Type
         IN  IF meta_type = "SessionEnd"
             THEN RunItems(Tail(its))
             ELSE IF meta_type \in {"WordBoundary", "SentenceBoundary"}
             THEN IF ~item.hasData
                  THEN [kind |-> "raise", event |-> <<>>, rest |-> <<>>,
                        raised |-> Raise("KeyError", <<>>)]
                  ELSE [kind |-> "yield", event |-> <<BoundaryEvent(item)>>,
                        rest |-> Tail(its), raised |-> NoOutcome]
             ELSE [kind |-> "raise", event |-> <<>>, rest |-> <<>>,
                   raised |-> Raise("UnknownMetadataResponse", meta_type)]

\* where the generator stands after the item loop ran
AfterItems(r) ==
    CASE r.kind = "yield" ->
            [pc |-> "yield_meta", event |-> r.event, items |-> r.rest,
             outcome |-> NoOutcome]
      [] r.kind = "raise" ->
            [pc |-> "failed", event |-> <<>>, items |-> <<>>, outcome |-> r.raised]
      [] r.kind = "exhausted" ->
            [pc |-> "streaming", event |-> <<>>, items |-> <<>>, outcome |-> NoOutcome]

\* a variant of Failed in which the exception is noted and the loop goes on
Failed_KeepsStreaming(exc) ==
    [pc |-> "streaming", event |-> <<>>, items |-> <<>>, outcome |-> exc]

Failed(exc) == [pc |-> "failed", event |-> <<>>, items |-> <<>>, outcome |-> exc]
Continue == [pc |-> "streaming", event |-> <<>>, items |-> <<>>, outcome |-> NoOutcome]

\* a variant of AfterLoop without the check of the flag
AfterLoop_NoCheck(flag) ==
    [pc |-> "done", event |-> <<>>, items |-> <<>>, outcome |-> Success]

\* the statements after the receive loop
AfterLoop(flag) ==
    IF ~flag
    THEN Failed(Raise("NoAudioReceived", <<>>))
    ELSE [pc |-> "done", event |-> <<>>, items |-> <<>>, outcome |-> Success]

\* a variant of OnText in which turn.end does not leave the loop
OnText_TurnEndContinues(received, flag) ==
    LET hd == get_headers_and_data(received.data)
        path == DictGet(hd.headers, PathKey)
    IN  IF hd.err # "none" THEN Failed(Raise(hd.err, <<>>))
        ELSE IF path \in {<<TurnEnd>>, <<Response>>, <<TurnStart>>} THEN Continue
        ELSE IF path = <<AudioMetadata>>
        THEN LET doc == json_loads_Metadata(hd.data)
             IN  IF doc.err # "none" THEN Failed(Raise(doc.err, <<>>))
                 ELSE AfterItems(RunItems(doc.Metadata))
        ELSE Failed(Raise("UnknownResponse", received.data))

\* a variant of OnText in which a frame without a Path header is passed over
OnText_MissingPathIgnored(received, flag) ==
    LET hd == get_headers_and_data(received.data)
        path == DictGet(hd.headers, PathKey)
    IN  IF hd.err # "none" THEN Failed(Raise(hd.err, <<>>))
        ELSE IF path = <<TurnEnd>> THEN AfterLoop(flag)
        ELSE IF path \in {<<>>, <<Response>>, <<TurnStart>>} THEN Continue
        ELSE IF path = <<AudioMetadata>>
        THEN LET doc == json_loads_Metadata(hd.data)
             IN  IF doc.err # "none" THEN Failed(Raise(doc.err, <<>>))
                 ELSE AfterItems(RunItems(doc.Metadata))
        ELSE Failed(Raise("UnknownResponse", received.data))

\* the TEXT branch of the receive loop
OnText(received, flag) ==
    LET hd == get_headers_and_data(received.data)
        path == DictGet(hd.headers, PathKey)
    IN  IF hd.err # "none" THEN Failed(Raise(hd.err, <<>>))
        ELSE IF path = <<TurnEnd>> THEN AfterLoop(flag)
        ELSE IF path \in {<<Response>>, <<TurnStart>>} THEN Continue
        ELSE IF path = <<AudioMetadata>>
        THEN LET doc == json_loads_Metadata(hd.data)
             IN  IF doc.err # "none" THEN Failed(Raise(doc.err, <<>>))
                 ELSE AfterItems(RunItems(doc.Metadata))
        ELSE Failed(Raise("UnknownResponse", received.data))

\* the BINARY branch of the receive loop, up to its yield
OnBinary(received) ==
    LET audio == parseBinaryFrame(received.data)
    IN  IF audio.err # "none" THEN Failed(Raise(audio.err, <<>>))
        ELSE [pc |-> "yield_audio", event |-> <<AudioEvent(audio.data)>>,
              items |-> <<>>, outcome |-> NoOutcome]

\* the ERROR branch of the receive loop
OnError(received) ==
    Failed(Raise("WebSocketError",
                 IF received.data # <<>> THEN received.data ELSE UnknownError))

\* one iteration of "async for received in websocket", up to the next
\* suspension of the generator
OnMessage(received, flag) ==
    CASE received.type = "CLOSED" -> AfterLoop(flag)
      [] received.type = "TEXT" -> OnText(received, flag)
      [] received.type = "BINARY" -> OnBinary(received)
      [] received.type = "ERROR" -> OnError(received)

(***************************************************************************)
(* The frames stream() sends.  speech_config carries str(bool) of the two  *)
(* boundary options; the request carries the SSML built by mkssml.         *)
(***************************************************************************)
PyStrBool(b) == IF b THEN "True" ELSE "False"

mkssml(text, voice, rate, volume, pitch) ==
    [voice |-> voice, pitch |-> pitch, rate |-> rate, volume |-> volume, text |-> text]

ConfigFrame(obj) ==
    [Path |-> "speech.config",
     body |-> [sentenceBoundaryEnabled |-> PyStrBool(obj.sentence_boundary),
               wordBoundaryEnabled |-> PyStrBool(obj.word_boundary),
               outputFormat |-> "audio-24khz-48kbitrate-mono-mp3"]]

RequestFrame(obj) ==
    [Path |-> "ssml",
     body |-> mkssml(obj.text, obj.voice, obj.rate, obj.volume, obj.pitch)]

(***************************************************************************)
(* The arguments of a construction, and the messages a service may send.   *)
(***************************************************************************)
DefaultVoice == VoicePrefix \o <<" ", "(", "e", "n", "-", "U", "S", ",", " ", "A", "r", "i", "a", "N", "e", "u", "r", "a", "l", ")">>

DefaultArgs ==
    [text |-> <<"h", "i">>,
     voice |-> DefaultVoice,
     rate |-> <<"+", "0", "%">>,
     volume |-> <<"+", "0", "%">>,
     pitch |-> <<"+", "0", "H", "z">>,
     proxy |-> [type |-> "NoneType"],
     word_boundary |-> FALSE,
     sentence_boundary |-> FALSE]

Text(data) == [type |-> "TEXT", data |-> data]
Binary(data) == [type |-> "BINARY", data |-> data]
Header(k, v) == k \o <<COLON>> \o v

MsgTurnEnd == Text(Header(PathKey, TurnEnd) \o Delimiter)
MsgTurnStart == Text(Header(PathKey, TurnStart) \o Delimiter)
\* X:1 \r\n Path:response \r\n\r\n {}
MsgResponse ==
    Text(Header(<<88>>, <<49>>) \o CRLF \o Header(PathKey, Response)
         \o Delimiter \o <<123, 125>>)
MsgMetaWord ==
    Text(Header(PathKey, AudioMetadata) \o Delimiter
         \o <<JsonOpen, ItemWord, JsonClose>>)
MsgMetaMixed ==
    Text(Header(PathKey, AudioMetadata) \o Delimiter
         \o <<JsonOpen, ItemSessionEnd, ItemSentence, ItemBogus, ItemWord, JsonClose>>)
MsgMetaNoData ==
    Text(Header(PathKey, AudioMetadata) \o Delimiter
         \o <<JsonOpen, ItemNoData, JsonClose>>)
\* the payload is the single byte "{"
MsgMetaBadJson == Text(Header(PathKey, AudioMetadata) \o Delimiter \o <<123>>)
\* Path:x
MsgUnknownPath == Text(Header(PathKey, <<120>>) \o Delimiter)
\* X:1
MsgNoPath == Text(Header(<<88>>, <<49>>) \o Delimiter)
\* a header line "X" without a colon
MsgNoColon == Text(<<88>> \o Delimiter)
\* Path:turn.end! and nothing after it
MsgNoDelimiter == Text(Header(PathKey, TurnEnd) \o <<33>>)

BinExample == Binary(<<0, 2, 170, 187, 1, 2, 3>>)
BinEmptyPayload == Binary(<<0, 0>>)
BinShort == Binary(<<0>>)
BinMissing == Binary(<<0, 2, 170>>)

MsgError == [type |-> "ERROR", data |-> <<>>]
MsgClosed == [type |-> "CLOSED", data |-> <<>>]

Messages ==
    {MsgTurnEnd, MsgTurnStart, MsgResponse, MsgMetaWord, MsgMetaMixed,
     MsgMetaNoData, MsgMetaBadJson, MsgUnknownPath, MsgNoPath, MsgNoColon,
     MsgNoDelimiter, BinExample, BinEmptyPayload, BinShort, BinMissing,
     MsgError, MsgClosed}

NoParse == [err |-> "unparsed", headers |-> NoHeaders, data |-> <<>>]

(***************************************************************************)
(* utils.py: format_timestamp and format_cue.  Formatted text is a         *)
(* sequence of characters.                                                 *)
(*                                                                         *)
(* A tick count (100 ns units) is held as [sec, sub]: whole seconds and    *)
(* the ticks below a second, since an hour of ticks does not fit the       *)
(* integers of the checker.  unit / 10**7 is a binary float in the code;   *)
(* the operators below compute on the decimal value, which gives the       *)
(* code's result whenever the tick count does not lie exactly half way     *)
(* between two milliseconds (sub % 10000 = 5000), and no such tick count   *)
(* is among the inputs.                                                    *)
(***************************************************************************)
TicksPerSecond == 10000000
TicksPerMilli == 10000

Ticks(n) == [sec |-> n \div TicksPerSecond, sub |-> n % TicksPerSecond]

DigitChar(d) == <<"0", "1", "2", "3", "4", "5", "6", "7", "8", "9">>[d + 1]

\* str(n) for n >= 0
RECURSIVE Decimal(_)
Decimal(n) ==
    IF n < 10 THEN <<DigitChar(n)>> ELSE Append(Decimal(n \div 10), DigitChar(n % 10))

\* f"{n:0<w>d}": zero padding up to the width w, never cutting
RECURSIVE ZeroPad(_, _)
ZeroPad(digits, w) ==
    IF Len(digits) >= w THEN digits ELSE ZeroPad(<<"0">> \o digits, w)

\* the seconds field in thousandths, as f"{seconds:06.3f}" rounds it
RoundedMillis(u) ==
    (u.sec % 60) * 1000 + (u.sub + TicksPerMilli \div 2) \div TicksPerMilli

\* a variant of format_timestamp whose minutes are not taken modulo 60
format_timestamp_MinutesNotWrapped(u) ==
    ZeroPad(Decimal(u.sec \div 3600), 2) \o <<":">>
      \o ZeroPad(Decimal(u.sec \div 60), 2) \o <<":">>
      \o ZeroPad(Decimal(RoundedMillis(u) \div 1000), 2) \o <<".">>
      \o ZeroPad(Decimal(RoundedMillis(u) % 1000), 3)

format_timestamp(u) ==
    LET hour == u.sec \div 3600
        minute == (u.sec \div 60) % 60
        millis == RoundedMillis(u)
    IN  ZeroPad(Decimal(hour), 2) \o <<":">>
          \o ZeroPad(Decimal(minute), 2) \o <<":">>
          \o ZeroPad(Decimal(millis \div 1000), 2) \o <<".">>
          \o ZeroPad(Decimal(millis % 1000), 3)

Whitespace == {" ", NL, "\t", "\r"}

\* str.strip()
RECURSIVE strip(_)
strip(text) ==
    IF text = <<>> THEN <<>>
    ELSE IF Head(text) \in Whitespace THEN strip(Tail(text))
    ELSE IF text[Len(text)] \in Whitespace THEN strip(SubSeq(text, 1, Len(text) - 1))
    ELSE text

Arrow == <<" ", "-", "-", ">", " ">>

format_cue(index, start, end, text) ==
    Decimal(index) \o <<NL>>
      \o format_timestamp(Ticks(start)) \o Arrow \o format_timestamp(Ticks(end)) \o <<NL>>
      \o strip(text) \o <<NL, NL>>

(***************************************************************************)
(* subtitle.py: the Subtitle object.  A segment is a record of a timestamp *)
(* (start, end), in ticks, and a text.                                     *)
(***************************************************************************)
NewSubtitle == [sentences |-> <<>>, words |-> <<>>]

Segment(timestamp, text) == [timestamp |-> timestamp, text |-> text]

sentence(obj, timestamp, text) ==
    [obj EXCEPT !.sentences = Append(@, Segment(timestamp, text))]

\* a variant of word that files the segment under the sentences as well
word_AlsoSentence(obj, timestamp, text) ==
    [obj EXCEPT !.words = Append(@, Segment(timestamp, text)),
                !.sentences = Append(@, Segment(timestamp, text))]

word(obj, timestamp, text) ==
    [obj EXCEPT !.words = Append(@, Segment(timestamp, text))]

\* ' '.join(words)
RECURSIVE JoinWords(_)
JoinWords(ws) ==
    IF ws = <<>> THEN <<>>
    ELSE IF Len(ws) = 1 THEN ws[1]
    ELSE ws[1] \o <<" ">> \o JoinWords(Tail(ws))

\* ''.join(cues)
RECURSIVE JoinCues(_)
JoinCues(cues) ==
    IF cues = <<>> THEN <<>> ELSE Head(cues) \o JoinCues(Tail(cues))

Punctuation == {<<".">>, <<",">>, <<"?">>}

\* a variant of ClosesCue that does not close the cue at the last word
ClosesCue_NoFinalFlush(ws, value, n, isLast) ==
    \/ Len(ws) = n
    \/ value \in Punctuation

\* a variant of ClosesCue that does not close the cue at a question mark
ClosesCue_NoQuestionMark(ws, value, n, isLast) ==
    \/ Len(ws) = n
    \/ value \in {<<".">>, <<",">>}
    \/ isLast

\* the condition of generate_word_subtitle under which the open cue is closed
\* at the word just added: ws are the words of the open cue, value the word
ClosesCue(ws, value, n, isLast) ==
    \/ Len(ws) = n
    \/ value \in Punctuation
    \/ isLast

\* the loop of generate_word_subtitle from the i-th word on (i counts from 1)
RECURSIVE WordLoop(_, _, _, _, _, _, _)
WordLoop(all, n, i, index, start, ws, cues) ==
    IF i > Len(all) THEN cues
    ELSE LET segment == all[i]
             value == strip(segment.text)
             time_start == segment.timestamp[1]
             time_end == segment.timestamp[2]
             ws2 == Append(ws, value)
             start2 == IF Len(ws2) = 1 THEN time_start ELSE start
         IN  IF ClosesCue(ws2, value, n, Len(all) = i)
             THEN WordLoop(all, n, i + 1, index + 1, start2, <<>>,
                           Append(cues, format_cue(index + 1, start2, time_end, JoinWords(ws2))))
             ELSE WordLoop(all, n, i + 1, index, start2, ws2, cues)

generate_word_subtitle(obj, n) ==
    JoinCues(WordLoop(obj.words, n, 1, 0, 0, <<>>, <<>>))

\* a variant of generate_sentence_subtitle that numbers the cues from 1
generate_sentence_subtitle_FromOne(obj) ==
    JoinCues([i \in 1..Len(obj.sentences) |->
                format_cue(i, obj.sentences[i].timestamp[1],
                           obj.sentences[i].timestamp[2], obj.sentences[i].text)])

\* the i-th segment (i counts from 1) is given the index i - 1 of range()
generate_sentence_subtitle(obj) ==
    JoinCues([i \in 1..Len(obj.sentences) |->
                format_cue(i - 1, obj.sentences[i].timestamp[1],
                           obj.sentences[i].timestamp[2], obj.sentences[i].text)])

\* what a call returned: the call, its argument if it has one, the value
NoReturn == [kind |-> "none", arg |-> <<>>, value |-> <<>>]
Returned(kind, arg, value) == [kind |-> kind, arg |-> arg, value |-> value]

\* the caller has done nothing yet
InitCaller ==
    /\ subtitle = NewSubtitle
    /\ audio_chunks = <<>>
    /\ ticks = Ticks(0)
    /\ returned = NoReturn

(***************************************************************************)
(* The session: Init is a Communicate constructed with the default         *)
(* arguments, stream() not yet started.                                    *)
(***************************************************************************)
Init ==
    /\ InitCaller
    /\ args = DefaultArgs
    /\ self = ConstructResult(DefaultArgs).self
    /\ pc = "start"
    /\ opened = FALSE
    /\ sent = <<>>
    /\ wire = <<>>
    /\ read = <<>>
    /\ items = <<>>
    /\ events = <<>>
    /\ audio_was_received = FALSE
    /\ outcome = NoOutcome
    /\ raw = <<>>
    /\ parsed = NoParse

\* session.ws_connect(...) entered
Connect ==
    /\ pc = "start"
    /\ pc' = "connected"
    /\ opened' = TRUE
    /\ UNCHANGED <<caller, args, self, sent, wire, read, items, events,
                   audio_was_received, outcome, raw, parsed>>

\* the first websocket.send_str: the speech.config frame
SendConfig ==
    /\ pc = "connected"
    /\ sent' = Append(sent, ConfigFrame(self))
    /\ pc' = "config_sent"
    /\ UNCHANGED <<caller, args, self, opened, wire, read, items, events,
                   audio_was_received, outcome, raw, parsed>>

\* a variant of SendRequest that goes on to the receive loop without sending
SendRequest_Skipped ==
    /\ pc = "config_sent"
    /\ pc' = "streaming"
    /\ UNCHANGED <<caller, args, self, opened, sent, wire, read, items, events,
                   audio_was_received, outcome, raw, parsed>>

\* the second websocket.send_str: the ssml frame
SendRequest ==
    /\ pc = "config_sent"
    /\ sent' = Append(sent, RequestFrame(self))
    /\ pc' = "streaming"
    /\ UNCHANGED <<caller, args, self, opened, wire, read, items, events,
                   audio_was_received, outcome, raw, parsed>>

\* the service puts one more message on the open socket; nothing follows a close
Deliver(m) ==
    /\ opened
    /\ Len(read) + Len(wire) < MaxFrames
    /\ \A i \in 1..Len(read) : read[i].type # "CLOSED"
    /\ \A i \in 1..Len(wire) : wire[i].type # "CLOSED"
    /\ wire' = Append(wire, m)
    /\ UNCHANGED <<caller, args, self, pc, opened, sent, read, items, events,
                   audio_was_received, outcome, raw, parsed>>

\* a variant of Advance that hands the newest event out first
Advance_Prepend(r) ==
    /\ pc' = r.pc
    /\ events' = r.event \o events
    /\ items' = r.items
    /\ outcome' = r.outcome

\* the generator moves to where OnMessage / the resumed loop leaves it
Advance(r) ==
    /\ pc' = r.pc
    /\ events' = events \o r.event
    /\ items' = r.items
    /\ outcome' = r.outcome

\* "async for received in websocket" takes the next message and handles it
Receive ==
    /\ pc = "streaming"
    /\ wire # <<>>
    /\ read' = Append(read, Head(wire))
    /\ wire' = Tail(wire)
    /\ Advance(OnMessage(Head(wire), audio_was_received))
    /\ UNCHANGED <<caller, args, self, opened, sent, audio_was_received, raw, parsed>>

\* a variant of ResumeAudio that counts only a non-empty payload as audio
ResumeAudio_NeedsPayload ==
    /\ pc = "yield_audio"
    /\ audio_was_received' = (audio_was_received \/ events[Len(events)].data # <<>>)
    /\ pc' = "streaming"
    /\ UNCHANGED <<caller, args, self, opened, sent, wire, read, items, events,
                   outcome, raw, parsed>>

\* the consumer asks for the next event after an audio event: the flag is set
\* and the loop goes on to await the next message
ResumeAudio ==
    /\ pc = "yield_audio"
    /\ audio_was_received' = TRUE
    /\ pc' = "streaming"
    /\ UNCHANGED <<caller, args, self, opened, sent, wire, read, items, events,
                   outcome, raw, parsed>>

\* the consumer asks for the next event after a boundary event: the item loop
\* goes on
ResumeMeta ==
    /\ pc = "yield_meta"
    /\ Advance(AfterItems(RunItems(items)))
    /\ UNCHANGED <<caller, args, self, opened, sent, wire, read,
                   audio_was_received, raw, parsed>>

Next ==
    \/ Connect
    \/ SendConfig
    \/ SendRequest
    \/ \E m \in Messages : Deliver(m)
    \/ Receive
    \/ ResumeAudio
    \/ ResumeMeta

Spec == Init /\ [][Next]_vars

(***************************************************************************)
(* Construction: Communicate(text, voice, rate=..., volume=..., pitch=..., *)
(* proxy=...) on arguments drawn from bounded sets, followed by the start  *)
(* of stream() on the object it leaves.                                    *)
(***************************************************************************)
SeqsUpTo(S, n) == UNION {[1..k -> S] : k \in 0..n}

VoiceInputs ==
    {DefaultVoice,
     <<"e", "n", "-", "U", "S", "-", "A", "r", "i", "a", "N", "e", "u", "r", "a", "l">>,
     <<"z", "h", "-", "C", "N", "-", "l", "i", "a", "o", "n", "i", "n", "g", "-", "X", "i", "a", "o", "b", "e", "i", "N", "e", "u", "r", "a", "l">>,
     <<"e", "n", "-", "U", "S", "-", "A", "r", "i", "a", "N", "e", "u", "r", "a", "l">> \o <<NL>>,
     <<"e", "n", "-", "U", "S", "-", "A", "r", "i", "a">>,
     <<"E", "N", "-", "U", "S", "-", "A", "r", "i", "a", "N", "e", "u", "r", "a", "l">>,
     VoicePrefix \o <<" ", "(", "e", "n", "-", "U", "S", ")">>,
     <<>>}

RateInputs == SeqsUpTo({"+", "5", "%"}, MaxRateLen)

VolumeInputs == {<<"-", "1", "0", "0", "%">>, <<"1", "0", "0", "%">>}

PitchInputs == {<<"+", "0", "H", "z">>, <<"-", "5", "H", "z">> \o <<NL>>, <<"+", "0", "%">>, <<"+", "H", "z">>}

ProxyInputs == {[type |-> "NoneType"], [type |-> "str"], [type |-> "int"]}

ArgInputs ==
    [text : {<<"h", "i">>},
     voice : VoiceInputs,
     rate : RateInputs,
     volume : VolumeInputs,
     pitch : PitchInputs,
     proxy : ProxyInputs,
     word_boundary : {TRUE},
     sentence_boundary : {FALSE}]

InitConstruct ==
    /\ InitCaller
    /\ args \in ArgInputs
    /\ self = NoSelf
    /\ pc = "new"
    /\ opened = FALSE
    /\ sent = <<>>
    /\ wire = <<>>
    /\ read = <<>>
    /\ items = <<>>
    /\ events = <<>>
    /\ audio_was_received = FALSE
    /\ outcome = NoOutcome
    /\ raw = <<>>
    /\ parsed = NoParse

\* Communicate.__init__ runs on the arguments
Construct ==
    /\ pc = "new"
    /\ LET r == ConstructResult(args)
       IN  /\ self' = r.self
           /\ outcome' = r.raised
           /\ pc' = IF r.self.constructed THEN "start" ELSE "ctor_failed"
    /\ UNCHANGED <<caller, args, opened, sent, wire, read, items, events,
                   audio_was_received, raw, parsed>>

NextConstruct ==
    \/ Construct
    \/ Connect
    \/ SendConfig
    \/ SendRequest

SpecConstruct == InitConstruct /\ [][NextConstruct]_vars

(***************************************************************************)
(* The frame codec on byte strings drawn from bounded sets.                *)
(***************************************************************************)
TextBytes == {CR, LF, COLON, 97}
AudioBytes == {0, 1, 2, 170}

TextInputs ==
    SeqsUpTo(TextBytes, MaxRawLen) \cup {m.data : m \in {n \in Messages : n.type = "TEXT"}}
BinaryInputs ==
    SeqsUpTo(AudioBytes, MaxRawLen) \cup {m.data : m \in {n \in Messages : n.type = "BINARY"}}

InitCodec ==
    /\ \/ pc = "text_frame" /\ raw \in TextInputs
       \/ pc = "binary_frame" /\ raw \in BinaryInputs
    /\ parsed = NoParse
    /\ InitCaller
    /\ args = DefaultArgs
    /\ self = ConstructResult(DefaultArgs).self
    /\ opened = FALSE
    /\ sent = <<>>
    /\ wire = <<>>
    /\ read = <<>>
    /\ items = <<>>
    /\ events = <<>>
    /\ audio_was_received = FALSE
    /\ outcome = NoOutcome

\* get_headers_and_data(raw)
ParseText ==
    /\ pc = "text_frame"
    /\ parsed' = get_headers_and_data(raw)
    /\ pc' = "text_parsed"
    /\ UNCHANGED <<caller, args, self, opened, sent, wire, read, items, events,
                   audio_was_received, outcome, raw>>

\* the BINARY branch of the receive loop on the frame raw, up to its yield
ParseBinary ==
    /\ pc = "binary_frame"
    /\ read' = Append(read, Binary(raw))
    /\ Advance(OnBinary(Binary(raw)))
    /\ UNCHANGED <<caller, args, self, opened, sent, wire, audio_was_received, raw, parsed>>

NextCodec ==
    \/ ParseText
    \/ ParseBinary

SpecCodec == InitCodec /\ [][NextCodec]_vars

\* the variables of the session but pc
stream_rest == <<args, self, opened, sent, wire, read, items, events,
                 audio_was_received, outcome, raw, parsed>>

(***************************************************************************)
(* text_to_speech: it constructs a Communicate with both boundary options, *)
(* consumes the events of stream() one by one and renders when the stream  *)
(* is over.                                                                *)
(***************************************************************************)
TextToSpeechArgs ==
    [DefaultArgs EXCEPT !.word_boundary = TRUE, !.sentence_boundary = TRUE]

InitTextToSpeech ==
    /\ InitCaller
    /\ args = TextToSpeechArgs
    /\ self = ConstructResult(TextToSpeechArgs).self
    /\ pc = "start"
    /\ opened = FALSE
    /\ sent = <<>>
    /\ wire = <<>>
    /\ read = <<>>
    /\ items = <<>>
    /\ events = <<>>
    /\ audio_was_received = FALSE
    /\ outcome = NoOutcome
    /\ raw = <<>>
    /\ parsed = NoParse

\* the loop body on an audio event, then the next event is asked for: the
\* generator goes on after its yield
ConsumeAudio ==
    /\ pc = "yield_audio"
    /\ audio_chunks' = Append(audio_chunks, events[Len(events)].data)
    /\ audio_was_received' = TRUE
    /\ pc' = "streaming"
    /\ UNCHANGED <<args, self, opened, sent, wire, read, items, events,
                   outcome, raw, parsed, subtitle, ticks, returned>>

\* the loop body on a boundary event, then the next event is asked for: the
\* item loop of the generator goes on
ConsumeBoundary ==
    /\ pc = "yield_meta"
    /\ LET item == events[Len(events)]
       IN  subtitle' =
              IF item.type = "WordBoundary"
              THEN word(subtitle, item.timestamp, item.text)
              ELSE IF item.type = "SentenceBoundary"
              THEN sentence(subtitle, item.timestamp, item.text)
              ELSE subtitle
    /\ Advance(AfterItems(RunItems(items)))
    /\ UNCHANGED <<args, self, opened, sent, wire, read, audio_was_received,
                   raw, parsed, audio_chunks, ticks, returned>>

\* b"".join(audio_chunks)
RECURSIVE JoinBytes(_)
JoinBytes(chunks) ==
    IF chunks = <<>> THEN <<>> ELSE Head(chunks) \o JoinBytes(Tail(chunks))

\* a variant of RenderAndReturn that renders what was collected also when
\* the stream has failed
RenderAndReturn_AlsoOnFailure ==
    /\ pc \in {"done", "failed"}
    /\ returned' = Returned("text_to_speech", <<>>,
                            <<JoinBytes(audio_chunks),
                              generate_word_subtitle(subtitle, 1),
                              generate_sentence_subtitle(subtitle)>>)
    /\ pc' = "returned"
    /\ UNCHANGED <<stream_rest, subtitle, audio_chunks, ticks>>

\* the stream is exhausted: the three results are made and returned
RenderAndReturn ==
    /\ pc = "done"
    /\ returned' = Returned("text_to_speech", <<>>,
                            <<JoinBytes(audio_chunks),
                              generate_word_subtitle(subtitle, 1),
                              generate_sentence_subtitle(subtitle)>>)
    /\ pc' = "returned"
    /\ UNCHANGED <<stream_rest, subtitle, audio_chunks, ticks>>

\* the exception of stream() leaves text_to_speech: nothing is returned
PropagateError ==
    /\ pc = "failed"
    /\ pc' = "raised"
    /\ UNCHANGED <<stream_rest, caller>>

NextTextToSpeech ==
    \/ Connect
    \/ SendConfig
    \/ SendRequest
    \/ \E m \in Messages : Deliver(m)
    \/ Receive
    \/ ConsumeAudio
    \/ ConsumeBoundary
    \/ RenderAndReturn
    \/ PropagateError

SpecTextToSpeech == InitTextToSpeech /\ [][NextTextToSpeech]_vars

(***************************************************************************)
(* format_timestamp on its own, on tick counts around the second, minute   *)
(* and hour marks.                                                         *)
(***************************************************************************)
MaxHours == 1       \* whole hours of the tick counts, besides 99 and 100

\* tick counts ((h * 3600 + m * 60 + s) * 1000 + ms) * 10000 + t
TimestampInputs ==
    {[sec |-> h * 3600 + m * 60 + s, sub |-> ms * TicksPerMilli + t] :
        h \in (0..MaxHours) \cup {99, 100}, m \in {0, 1, 59}, s \in {0, 1, 59},
        ms \in {0, 1, 499, 500, 999}, t \in {0, 1, 4999, 5001, 9999}}

InitTimestamp ==
    /\ pc = "format_timestamp"
    /\ ticks \in TimestampInputs
    /\ subtitle = NewSubtitle
    /\ audio_chunks = <<>>
    /\ returned = NoReturn
    /\ args = DefaultArgs
    /\ self = NoSelf
    /\ opened = FALSE
    /\ sent = <<>>
    /\ wire = <<>>
    /\ read = <<>>
    /\ items = <<>>
    /\ events = <<>>
    /\ audio_was_received = FALSE
    /\ outcome = NoOutcome
    /\ raw = <<>>
    /\ parsed = NoParse

\* format_timestamp(ticks)
Format ==
    /\ pc = "format_timestamp"
    /\ returned' = Returned("format_timestamp", <<>>, format_timestamp(ticks))
    /\ pc' = "formatted"
    /\ UNCHANGED <<args, self, opened, sent, wire, read, items, events,
                   audio_was_received, outcome, raw, parsed,
                   subtitle, audio_chunks, ticks>>

NextTimestamp == Format

SpecTimestamp == InitTimestamp /\ [][NextTimestamp]_vars

(***************************************************************************)
(* The Subtitle object on its own: a caller adds words and sentences and   *)
(* renders, in any order.                                                  *)
(***************************************************************************)
MaxSegments == 4        \* segments given to one Subtitle object
MaxWordsInCue == 3      \* the largest words_in_cue a caller asks for

WordTexts ==
    {<<"H", "e", "l", "l", "o">>, <<",">>, <<"w", "o", "r", "l", "d">>,
     <<".">>, <<" ", "?", " ">>}

SentenceTexts ==
    {<<"H", "i", ".">>, <<" ", "O", "k", "?", " ">>}

\* the timestamp of the k-th word: half a second apart, 0.375 s long
WordTime(k) == <<(k - 1) * 5000000, (k - 1) * 5000000 + 3750000>>

\* the timestamp of the k-th sentence: two seconds apart, 1.5 s long
SentenceTime(k) == <<(k - 1) * 20000000, (k - 1) * 20000000 + 15000000>>

InitSubtitle ==
    /\ pc = "subtitle"
    /\ InitCaller
    /\ args = DefaultArgs
    /\ self = NoSelf
    /\ opened = FALSE
    /\ sent = <<>>
    /\ wire = <<>>
    /\ read = <<>>
    /\ items = <<>>
    /\ events = <<>>
    /\ audio_was_received = FALSE
    /\ outcome = NoOutcome
    /\ raw = <<>>
    /\ parsed = NoParse

stream == <<args, self, pc, opened, sent, wire, read, items, events,
            audio_was_received, outcome, raw, parsed>>

\* subtitle.word(timestamp, text)
AddWord(text) ==
    /\ pc = "subtitle"
    /\ Len(subtitle.words) + Len(subtitle.sentences) < MaxSegments
    /\ subtitle' = word(subtitle, WordTime(Len(subtitle.words) + 1), text)
    /\ returned' = NoReturn
    /\ UNCHANGED <<stream, audio_chunks, ticks>>

\* subtitle.sentence(timestamp, text)
AddSentence(text) ==
    /\ pc = "subtitle"
    /\ Len(subtitle.words) + Len(subtitle.sentences) < MaxSegments
    /\ subtitle' = sentence(subtitle, SentenceTime(Len(subtitle.sentences) + 1), text)
    /\ returned' = NoReturn
    /\ UNCHANGED <<stream, audio_chunks, ticks>>

\* subtitle.generate_word_subtitle(n)
GenerateWords(n) ==
    /\ pc = "subtitle"
    /\ returned' = Returned("generate_word_subtitle", <<n>>,
                            generate_word_subtitle(subtitle, n))
    /\ UNCHANGED <<stream, subtitle, audio_chunks, ticks>>

\* subtitle.generate_sentence_subtitle()
GenerateSentences ==
    /\ pc = "subtitle"
    /\ returned' = Returned("generate_sentence_subtitle", <<>>,
                            generate_sentence_subtitle(subtitle))
    /\ UNCHANGED <<stream, subtitle, audio_chunks, ticks>>

NextSubtitle ==
    \/ \E text \in WordTexts : AddWord(text)
    \/ \E text \in SentenceTexts : AddSentence(text)
    \/ \E n \in 1..MaxWordsInCue : GenerateWords(n)
    \/ GenerateSentences

SpecSubtitle == InitSubtitle /\ [][NextSubtitle]_vars

(***************************************************************************)
(* Properties of the session.                                              *)
(***************************************************************************)
Last(s) == s[Len(s)]
Front(s) == SubSeq(s, 1, Len(s) - 1)

ErrorKinds ==
    {"UnknownResponse", "UnknownMetadataResponse", "UnexpectedResponse",
     "MissingAudioData", "WebSocketError", "NoAudioReceived",
     "ValueError", "KeyError", "JSONDecodeError"}

\* what get_headers_and_data gives on each text message of the model
ParsedFrame ==
    [m \in {n \in Messages : n.type = "TEXT"} |-> get_headers_and_data(m.data)]

\* the Path header of a text frame whose headers parse: <<path>> or <<>>
PathOfFrame(m) == DictGet(ParsedFrame[m].headers, PathKey)
ParsesAsText(m) == m.type = "TEXT" /\ ParsedFrame[m].err = "none"
IsTurnEndFrame(m) == ParsesAsText(m) /\ PathOfFrame(m) = <<TurnEnd>>
TurnEndWasRead == \E i \in 1..Len(read) : IsTurnEndFrame(read[i])

AudioEventsIn(evs) == {i \in 1..Len(evs) : evs[i].type = "audio"}

\* C1: when a text frame with Path turn.end is read the stream is over: it
\* failed with NoAudioReceived if no audio event was emitted in the session,
\* it ended successfully if at least one was; a session of turn.start then
\* turn.end fails with NoAudioReceived.
C1_EndOutcome ==
    /\ (read # <<>> /\ IsTurnEndFrame(Last(read))) =>
          /\ pc \in {"done", "failed"}
          /\ AudioEventsIn(events) = {} =>
                pc = "failed" /\ outcome.kind = "NoAudioReceived"
          /\ AudioEventsIn(events) # {} =>
                pc = "done" /\ outcome = Success
    /\ read = <<MsgTurnStart, MsgTurnEnd>> =>
          pc = "failed" /\ outcome.kind = "NoAudioReceived"

C1_Witness ==
    /\ read # <<>>
    /\ Last(read) = MsgTurnEnd
    /\ AudioEventsIn(events) # {}
    /\ BoundaryEvent(ItemOf(ItemWord)) \in {events[i] : i \in 1..Len(events)}
    /\ pc = "done"

\* a step from a state where the stream is over changes nothing of the stream
StaysOver ==
    pc \in {"failed", "done"} =>
        /\ pc' = pc
        /\ outcome' = outcome
        /\ events' = events
        /\ read' = read
        /\ items' = items
        /\ audio_was_received' = audio_was_received

\* C2: a failure is final and single: in every state the stream is either
\* running with no outcome, ended successfully, or failed with exactly one
\* error; once it has failed (or ended) no event is emitted, no message is
\* read and the outcome does not change.
C2_SingleTerminalOutcome ==
    /\ [](/\ pc = "failed" <=> outcome.kind \in ErrorKinds
          /\ pc = "done" <=> outcome = Success
          /\ pc \notin {"failed", "done"} <=> outcome = NoOutcome)
    /\ [][StaysOver]_vars

C2_Witness ==
    /\ pc = "failed"
    /\ outcome.kind = "UnknownMetadataResponse"
    /\ Len(read) < MaxFrames
    /\ events # <<>>
    /\ wire # <<>>

(***************************************************************************)
(* The events a sequence of read messages stands for, read off the         *)
(* messages themselves.                                                    *)
(***************************************************************************)
IsBoundaryItem(item) == item.Type \in {"WordBoundary", "SentenceBoundary"}
IsKnownItem(item) == IsBoundaryItem(item) \/ item.Type = "SessionEnd"
ItemFails(item) == ~IsKnownItem(item) \/ (IsBoundaryItem(item) /\ ~item.hasData)

\* the items of a list that come before its first failing item
BeforeFailure(list) ==
    LET bad == {i \in 1..Len(list) : ItemFails(list[i])}
        stop == IF bad = {} THEN Len(list) + 1
                ELSE CHOOSE i \in bad : \A j \in bad : i <= j
    IN  SubSeq(list, 1, stop - 1)

\* one boundary event per WordBoundary / SentenceBoundary item, in list order
BoundaryEventsOf(list) ==
    LET kept == SelectSeq(list, IsBoundaryItem)
    IN  [i \in 1..Len(kept) |-> BoundaryEvent(kept[i])]

IsMetadataFrame(m) ==
    /\ ParsesAsText(m)
    /\ PathOfFrame(m) = <<AudioMetadata>>
    /\ json_loads_Metadata(ParsedFrame[m].data).err = "none"
ItemsOfFrame(m) == json_loads_Metadata(ParsedFrame[m].data).Metadata

IsAudioFrame(m) ==
    /\ m.type = "BINARY"
    /\ Len(m.data) >= 2
    /\ Len(m.data) >= m.data[1] * 256 + m.data[2] + 2
AudioPayloadOf(m) ==
    LET L == m.data[1] * 256 + m.data[2]
    IN  [i \in 1..(Len(m.data) - L - 2) |-> m.data[L + 2 + i]]

\* the events of one message handled to its end
EventsOfMessage(m) ==
    IF IsAudioFrame(m) THEN <<[type |-> "audio", data |-> AudioPayloadOf(m)]>>
    ELSE IF IsMetadataFrame(m) THEN BoundaryEventsOf(BeforeFailure(ItemsOfFrame(m)))
    ELSE <<>>

RECURSIVE EventsOfMessages(_)
EventsOfMessages(ms) ==
    IF ms = <<>> THEN <<>>
    ELSE EventsOfMessages(Front(ms)) \o EventsOfMessage(Last(ms))

\* the events of the message being handled: while the item loop is suspended
\* at a yield, those of the items it has passed
EventsOfCurrent(m) ==
    IF pc = "yield_meta"
    THEN BoundaryEventsOf(SubSeq(ItemsOfFrame(m), 1, Len(ItemsOfFrame(m)) - Len(items)))
    ELSE EventsOfMessage(m)

\* C3: the events emitted are exactly the in-order classification of the
\* messages read so far: all events of every earlier message, then those of
\* the message being handled up to the point reached; after a failure, those
\* of the messages and items before the failing one.
C3_EventsInDeliveryOrder ==
    events = IF read = <<>> THEN <<>>
             ELSE EventsOfMessages(Front(read)) \o EventsOfCurrent(Last(read))

C3_Witness ==
    /\ Len(read) = 3
    /\ read[1] = MsgMetaWord
    /\ read[2] = BinExample
    /\ read[3] = MsgMetaMixed
    /\ pc = "failed"
    /\ Len(events) = 3

\* a step from a state where a turn.end frame was read: the stream is over
NothingAfterTurnEnd ==
    TurnEndWasRead =>
        /\ read' = read
        /\ events' = events
        /\ pc' = pc
        /\ pc \in {"done", "failed"}

\* C4: a turn.end frame is the last message ever read: reading it emits no
\* event, and once it is read no message is read and no event is emitted,
\* whatever is still on the socket.
C4_TurnEndIsTerminal ==
    /\ [](\A i \in 1..Len(read) : IsTurnEndFrame(read[i]) => i = Len(read))
    /\ [][(read' # read /\ IsTurnEndFrame(Last(read'))) => events' = events]_vars
    /\ [][NothingAfterTurnEnd]_vars

C4_Witness ==
    /\ read = <<BinExample, MsgTurnEnd>>
    /\ wire = <<MsgMetaWord>>
    /\ pc = "done"
    /\ Len(events) = 1

RecognizedPaths == {<<TurnEnd>>, <<Response>>, <<TurnStart>>, <<AudioMetadata>>}

\* a text frame whose headers parse and whose Path is absent or not recognized
HasUnknownPath(m) == ParsesAsText(m) /\ PathOfFrame(m) \notin RecognizedPaths

\* C5: once a text frame whose Path header is missing or not one of turn.end,
\* response, turn.start, audio.metadata is read, the stream has failed with
\* UnknownResponse carrying the frame's data, and the frame added no event.
C5_UnknownPathFails ==
    (read # <<>> /\ HasUnknownPath(Last(read))) =>
        /\ pc = "failed"
        /\ outcome = Raise("UnknownResponse", Last(read).data)
        /\ events = EventsOfMessages(Front(read))

C5_Witness ==
    /\ read = <<BinExample, MsgNoPath>>
    /\ pc = "failed"
    /\ outcome.kind = "UnknownResponse"
    /\ Len(events) = 1

\* the index of the first item of a list whose Type is not recognized, else 0
FirstUnknownItem(list) ==
    LET bad == {i \in 1..Len(list) : ~IsKnownItem(list[i])}
    IN  IF bad = {} THEN 0 ELSE CHOOSE i \in bad : \A j \in bad : i <= j

\* the item loop has come to the first item of unrecognized Type of the
\* metadata frame read last
ReachedUnknownItem ==
    /\ read # <<>>
    /\ IsMetadataFrame(Last(read))
    /\ FirstUnknownItem(ItemsOfFrame(Last(read))) # 0
    /\ \A i \in 1..(FirstUnknownItem(ItemsOfFrame(Last(read))) - 1) :
            ~ItemFails(ItemsOfFrame(Last(read))[i])
    /\ pc # "yield_meta"

\* C6: when the item loop comes to the first item of a metadata frame whose
\* Type is none of WordBoundary, SentenceBoundary, SessionEnd, the stream
\* fails with UnknownMetadataResponse carrying that Type, and the frame has
\* emitted the events of the items before it only; Type "Bogus" gives
\* UnknownMetadataResponse("Bogus").
C6_UnknownMetadataFails ==
    /\ ReachedUnknownItem =>
          LET list == ItemsOfFrame(Last(read))
              k == FirstUnknownItem(list)
          IN  /\ pc = "failed"
              /\ outcome = Raise("UnknownMetadataResponse", list[k].Type)
              /\ events = EventsOfMessages(Front(read))
                            \o BoundaryEventsOf(SubSeq(list, 1, k - 1))
    /\ (read # <<>> /\ Last(read) = MsgMetaMixed /\ pc # "yield_meta") =>
          outcome = Raise("UnknownMetadataResponse", "Bogus")

C6_Witness ==
    /\ read = <<MsgMetaMixed>>
    /\ pc = "failed"
    /\ outcome = Raise("UnknownMetadataResponse", "Bogus")
    /\ events = <<BoundaryEvent(ItemOf(ItemSentence))>>

\* C7: a binary frame, L the big-endian value of its first two bytes: shorter
\* than 2 bytes fails with UnexpectedResponse; at least 2 bytes but shorter
\* than L + 2 fails with MissingAudioData; otherwise exactly one audio event
\* is emitted, its payload the bytes from index L + 2 to the end;
\* 00 02 AA BB 01 02 03 gives 01 02 03.
C7_BinaryFrame ==
    (Len(read) = 1 /\ read[1].type = "BINARY") =>
        LET d == read[1].data
        IN  /\ Len(d) < 2 =>
                /\ pc = "failed"
                /\ outcome.kind = "UnexpectedResponse"
                /\ events = <<>>
            /\ (Len(d) >= 2 /\ Len(d) < d[1] * 256 + d[2] + 2) =>
                /\ pc = "failed"
                /\ outcome.kind = "MissingAudioData"
                /\ events = <<>>
            /\ (Len(d) >= 2 /\ Len(d) >= d[1] * 256 + d[2] + 2) =>
                /\ pc = "yield_audio"
                /\ outcome = NoOutcome
                /\ Len(events) = 1
                /\ events[1].type = "audio"
                /\ events[1].data =
                      [i \in 1..(Len(d) - (d[1] * 256 + d[2]) - 2) |->
                          d[d[1] * 256 + d[2] + 2 + i]]
            /\ d = <<0, 2, 170, 187, 1, 2, 3>> => events[1].data = <<1, 2, 3>>

C7_Witness ==
    /\ pc = "yield_audio"
    /\ read = <<Binary(<<0, 2, 170, 187, 1, 2, 3>>)>>
    /\ events = <<AudioEvent(<<1, 2, 3>>)>>

\* the frame holds \r\n\r\n somewhere
HasDelimiter(data) ==
    \E i \in 1..(Len(data) - 3) : SubSeq(data, i, i + 3) = Delimiter

\* the header lines of a frame that holds the delimiter
HeaderLines(data) == PySplit(HeaderRegion(data), CRLF)

\* C8: get_headers_and_data fails on a frame without the \r\n\r\n delimiter
\* and on a frame with a header line without a colon, and never returns
\* headers and a payload for one; on a well-formed frame it returns each
\* header line split at its first colon and the bytes after the first
\* delimiter.
C8_MalformedFrameRejected ==
    pc = "text_parsed" =>
        /\ ~HasDelimiter(raw) => parsed.err # "none"
        /\ (HasDelimiter(raw) /\ \E i \in 1..Len(HeaderLines(raw)) :
                                      COLON \notin {HeaderLines(raw)[i][j] :
                                                      j \in 1..Len(HeaderLines(raw)[i])})
              => parsed.err # "none"
        /\ (HasDelimiter(raw) /\ \A i \in 1..Len(HeaderLines(raw)) :
                                      COLON \in {HeaderLines(raw)[i][j] :
                                                   j \in 1..Len(HeaderLines(raw)[i])})
              => /\ parsed.err = "none"
                 /\ parsed.data = PyFrom(raw, PyFind(raw, Delimiter) + 4)
                 /\ \A i \in 1..Len(HeaderLines(raw)) :
                        KeyOf(HeaderLines(raw)[i]) \in DOMAIN parsed.headers

\* C9: when the socket is closed before a turn.end frame is read, the stream
\* ends with an error, also when audio events were emitted.
C9_ClosedSocketIsAnError ==
    (read # <<>> /\ Last(read).type = "CLOSED") => pc = "failed"

(***************************************************************************)
(* The grammars of the arguments, read as patterns: a string matches       *)
(* pattern$ when the pattern matches the whole string, or the whole string *)
(* up to a final newline.                                                  *)
(***************************************************************************)
UpToFinalNewline(s) ==
    IF s # <<>> /\ s[Len(s)] = NL THEN {s, SubSeq(s, 1, Len(s) - 1)} ELSE {s}

\* t is a sign, n >= 1 digits and the unit
IsSignedNumber(t, unit) ==
    \E n \in 1..Len(t) :
        /\ Len(t) = 1 + n + Len(unit)
        /\ t[1] \in {"+", "-"}
        /\ \A i \in 2..(n + 1) : t[i] \in Digit
        /\ SubSeq(t, n + 2, Len(t)) = unit

\* t is lang "-" REGION "-" name with name ending in Neural
IsShortVoice(t) ==
    \E i \in 1..Len(t) : \E j \in (i + 1)..Len(t) :
        /\ t[i] = "-" /\ t[j] = "-"
        /\ i - 1 >= 2 /\ \A n \in 1..(i - 1) : t[n] \in Lower
        /\ j - i - 1 >= 2 /\ \A n \in (i + 1)..(j - 1) : t[n] \in Upper
        /\ Len(t) - j >= 7
        /\ SubSeq(t, Len(t) - 5, Len(t)) = <<"N", "e", "u", "r", "a", "l">>
        /\ \A n \in (j + 1)..Len(t) : t[n] # NL

\* t is the prefix, " (", something, ",", something, ")"
IsCanonicalVoice(t) ==
    LET open == VoicePrefix \o <<" ", "(">>
    IN  \E n \in (Len(open) + 2)..(Len(t) - 2) :
            /\ SubSeq(t, 1, Len(open)) = open
            /\ t[n] = ","
            /\ t[Len(t)] = ")"
            /\ \A i \in (Len(open) + 1)..(Len(t) - 1) : t[i] # NL

GrammarOk(a) ==
    /\ \E t \in UpToFinalNewline(a.voice) : IsShortVoice(t) \/ IsCanonicalVoice(t)
    /\ \E t \in UpToFinalNewline(a.rate) : IsSignedNumber(t, <<"%">>)
    /\ \E t \in UpToFinalNewline(a.volume) : IsSignedNumber(t, <<"%">>)
    /\ \E t \in UpToFinalNewline(a.pitch) : IsSignedNumber(t, <<"H", "z">>)

\* C10: a construction on a voice, rate, volume or pitch outside its grammar
\* fails in the constructor and no socket is opened and no frame is sent for
\* it, ever; a construction on arguments inside the grammars (the proxy None
\* or a str) succeeds.
C10_InvalidParameterFailsEarly ==
    /\ ~GrammarOk(args) =>
          /\ pc \in {"new", "ctor_failed"}
          /\ ~opened
          /\ sent = <<>>
          /\ self = NoSelf
          /\ pc = "ctor_failed" => outcome.kind = "ValueError"
    /\ (GrammarOk(args) /\ args.proxy.type \in {"NoneType", "str"} /\ pc # "new") =>
          /\ pc # "ctor_failed"
          /\ self # NoSelf
          /\ self.rate = args.rate
          /\ outcome = NoOutcome

C10_Witness ==
    /\ pc = "ctor_failed"
    /\ args.voice = <<"e", "n", "-", "U", "S", "-", "A", "r", "i", "a", "N", "e", "u", "r", "a", "l">>
    /\ args.rate = <<"5", "%">>
    /\ args.volume = <<"-", "1", "0", "0", "%">>
    /\ args.pitch = <<"+", "0", "H", "z">>
    /\ args.proxy.type = "NoneType"
    /\ outcome = Raise("ValueError", "rate")
    /\ ~opened

\* a step taken after the receive loop has read a message sends nothing
NoSendAfterRead == read # <<>> => sent' = sent

\* C13: the speech.config frame is sent once, then the ssml frame once, and
\* nothing else; no message is read and no event is emitted before both were
\* sent, and nothing is sent once a message has been read.
C13_SendsBeforeReceiving ==
    /\ [](/\ Len(sent) <= 2
          /\ Len(sent) >= 1 => sent[1].Path = "speech.config"
          /\ Len(sent) >= 2 => sent[2].Path = "ssml"
          /\ pc = "start" => ~opened /\ sent = <<>>
          /\ pc = "connected" => opened /\ sent = <<>>
          /\ pc = "config_sent" => Len(sent) = 1
          /\ pc \notin {"start", "connected", "config_sent"} => Len(sent) = 2
          /\ (read # <<>> \/ events # <<>>) => Len(sent) = 2)
    /\ [][NoSendAfterRead]_vars

C13_Witness ==
    /\ Len(sent) = 2
    /\ sent[1].Path = "speech.config"
    /\ sent[2].Path = "ssml"
    /\ Len(read) = 2
    /\ Len(events) = 1
    /\ pc = "done"

\* the items of the metadata frame read last that the item loop has passed
\* without failing
ItemsPassed ==
    IF pc = "yield_meta"
    THEN SubSeq(ItemsOfFrame(Last(read)), 1, Len(ItemsOfFrame(Last(read))) - Len(items))
    ELSE BeforeFailure(ItemsOfFrame(Last(read)))

\* C16: every WordBoundary / SentenceBoundary item the item loop has passed
\* gave exactly one event, of the item's type, with the timestamp
\* (Offset, Offset + Duration) and the item's text, in item order; a
\* SessionEnd item gave none and the items after it were still handled.
C16_BoundaryEventPerItem ==
    (read # <<>> /\ IsMetadataFrame(Last(read))) =>
        LET kept == SelectSeq(ItemsPassed, IsBoundaryItem)
            base == Len(EventsOfMessages(Front(read)))
        IN  /\ Len(events) = base + Len(kept)
            /\ \A i \in 1..Len(kept) :
                  /\ events[base + i].type = kept[i].Type
                  /\ events[base + i].timestamp[1] = kept[i].Offset
                  /\ events[base + i].timestamp[2] = kept[i].Offset + kept[i].Duration
                  /\ events[base + i].timestamp[2] >= events[base + i].timestamp[1]
                  /\ events[base + i].text = kept[i].Text

C16_Witness ==
    /\ read = <<MsgMetaWord, MsgMetaMixed>>
    /\ Len(events) = 2
    /\ events[1].type = "WordBoundary"
    /\ events[1].timestamp = <<100, 150>>
    /\ events[2].type = "SentenceBoundary"
    /\ events[2].timestamp = <<100, 1000>>
    /\ events[2].text = <<"H", "e", "l", "l", "o", " ", "w", "o", "r", "l", "d", ".">>

\* the flag, once set, stays set
FlagStaysSet == audio_was_received => audio_was_received'

\* the flag is set only on going on after the audio event of a binary frame
FlagSetAfterAudio ==
    (~audio_was_received /\ audio_was_received') =>
        /\ pc = "yield_audio"
        /\ Last(read).type = "BINARY"
        /\ read' = read

\* C19: the flag is set by every binary frame that passes the length checks,
\* whatever its payload: it is true exactly when the loop has gone on after
\* the audio event of such a frame; a frame of exactly L + 2 bytes gives an
\* audio event with an empty payload, and such a frame followed by turn.end
\* ends successfully; no text frame sets the flag and nothing resets it.
C19_AudioFlag ==
    /\ [](audio_was_received <=>
            \E i \in 1..Len(read) :
                /\ IsAudioFrame(read[i])
                /\ i = Len(read) => pc # "yield_audio")
    /\ [](read = <<BinEmptyPayload, MsgTurnEnd>> =>
            /\ pc = "done"
            /\ outcome = Success
            /\ events = <<[type |-> "audio", data |-> <<>>]>>)
    /\ [][FlagStaysSet]_vars
    /\ [][FlagSetAfterAudio]_vars

C19_Witness ==
    /\ read = <<BinEmptyPayload, MsgTurnEnd>>
    /\ events = <<[type |-> "audio", data |-> <<>>]>>
    /\ audio_was_received
    /\ pc = "done"

(***************************************************************************)
(* The Subtitle object and the timestamp format.                           *)
(***************************************************************************)
\* the cue blocks of a rendered subtitle text, read back field by field:
\* "<index>\n<start> --> <end>\n<text>\n\n" for each cue
CuesOf(str) ==
    LET blocks == Front(PySplit(str, <<NL, NL>>))
    IN  [k \in 1..Len(blocks) |->
            LET lines == PySplit(blocks[k], <<NL>>)
                range == PySplit(lines[2], Arrow)
            IN  [index |-> lines[1], start |-> range[1], end |-> range[2],
                 text |-> lines[3]]]

\* the words of a cue text
WordsOfCue(cue) == PySplit(cue.text, <<" ">>)

\* FirstOfCue(ws, n)[j]: the position of the first word of the cue that is
\* open when the j-th word is added, under the closing rule of the claim
ClosedByRule(ws, n, j, first) ==
    \/ j - first + 1 = n
    \/ strip(ws[j].text) \in {<<".">>, <<",">>, <<"?">>}
    \/ j = Len(ws)

FirstOfCue(ws, n) ==
    LET first[j \in 1..Len(ws)] ==
            IF j = 1 THEN 1
            ELSE IF ClosedByRule(ws, n, j - 1, first[j - 1]) THEN j
            ELSE first[j - 1]
    IN  first

\* the positions at which the rule closes a cue, in order
ClosingsByRule(ws, n) ==
    LET first == FirstOfCue(ws, n)
        C == {j \in 1..Len(ws) : ClosedByRule(ws, n, j, first[j])}
    IN  [k \in 1..Cardinality(C) |->
            CHOOSE j \in C : Cardinality({i \in C : i <= j}) = k]

HelloCommaWorldDot ==
    <<<<"H", "e", "l", "l", "o">>, <<",">>, <<"w", "o", "r", "l", "d">>, <<".">>>>

TextsOf(segments) == [i \in 1..Len(segments) |-> segments[i].text]

\* C11: generate_word_subtitle(words_in_cue) closes a cue at a word exactly
\* when the open cue then holds words_in_cue words, or the trimmed word is
\* '.', ',' or '?', or the word is the last; the k-th cue has the index k,
\* runs from the start of its first word to the end of its last word and
\* holds its words in order; "Hello" "," "world" "." with words_in_cue = 1
\* gives four cues of one token each, with the indices 1 to 4.
C11_WordCues ==
    returned.kind = "generate_word_subtitle" =>
        LET ws == subtitle.words
            n == returned.arg[1]
            cues == CuesOf(returned.value)
            first == FirstOfCue(ws, n)
            closings == ClosingsByRule(ws, n)
        IN  /\ Len(cues) = Len(closings)
            /\ \A k \in 1..Len(cues) :
                  LET j == closings[k]
                  IN  /\ cues[k].index = Decimal(k)
                      /\ cues[k].start = format_timestamp(Ticks(ws[first[j]].timestamp[1]))
                      /\ cues[k].end = format_timestamp(Ticks(ws[j].timestamp[2]))
                      /\ WordsOfCue(cues[k]) =
                            [i \in 1..(j - first[j] + 1) |-> strip(ws[first[j] + i - 1].text)]
            /\ (TextsOf(ws) = HelloCommaWorldDot /\ n = 1) =>
                  /\ Len(cues) = 4
                  /\ \A k \in 1..4 :
                        /\ cues[k].index = <<DigitChar(k)>>
                        /\ cues[k].text = HelloCommaWorldDot[k]

C11_Witness ==
    /\ returned.kind = "generate_word_subtitle"
    /\ returned.arg = <<1>>
    /\ TextsOf(subtitle.words) = HelloCommaWorldDot
    /\ Len(CuesOf(returned.value)) = 4
    /\ CuesOf(returned.value)[3].index = <<"3">>
    /\ CuesOf(returned.value)[3].text = <<"w", "o", "r", "l", "d">>

\* C12: generate_sentence_subtitle gives one cue per sentence segment, in
\* arrival order: as many cues as sentences were added, the k-th (from 1)
\* with the index k - 1, the segment's own start and end, and its text.
C12_SentenceCues ==
    returned.kind = "generate_sentence_subtitle" =>
        LET cues == CuesOf(returned.value)
        IN  /\ Len(cues) = Len(subtitle.sentences)
            /\ \A k \in 1..Len(cues) :
                  /\ cues[k].index = Decimal(k - 1)
                  /\ cues[k].start = format_timestamp(Ticks(subtitle.sentences[k].timestamp[1]))
                  /\ cues[k].end = format_timestamp(Ticks(subtitle.sentences[k].timestamp[2]))
                  /\ cues[k].text = strip(subtitle.sentences[k].text)

C12_Witness ==
    /\ returned.kind = "generate_sentence_subtitle"
    /\ Len(subtitle.sentences) = 3
    /\ CuesOf(returned.value)[1].index = <<"0">>
    /\ CuesOf(returned.value)[3].index = <<"2">>
    /\ CuesOf(returned.value)[3].start = <<"0", "0", ":", "0", "0", ":", "0", "4", ".", "0", "0", "0">>
    /\ CuesOf(returned.value)[3].end = <<"0", "0", ":", "0", "0", ":", "0", "5", ".", "5", "0", "0">>

IsRendering(r) == r.kind \in {"generate_word_subtitle", "generate_sentence_subtitle"}

\* s2 is s1 with exactly one segment added at its end
OneAppended(s1, s2) == Len(s2) = Len(s1) + 1 /\ SubSeq(s2, 1, Len(s1)) = s1

\* what C17 says of one step of a Subtitle object
SubtitleFrame ==
    /\ subtitle'.words # subtitle.words =>
          /\ OneAppended(subtitle.words, subtitle'.words)
          /\ subtitle'.sentences = subtitle.sentences
    /\ subtitle'.sentences # subtitle.sentences =>
          /\ OneAppended(subtitle.sentences, subtitle'.sentences)
          /\ subtitle'.words = subtitle.words
    /\ ~IsRendering(returned') => subtitle' # subtitle
    /\ IsRendering(returned') => subtitle' = subtitle
    /\ (IsRendering(returned) /\ returned'.kind = returned.kind /\ returned'.arg = returned.arg) =>
          returned'.value = returned.value

\* C17: the words and the sentences are two append-only sequences: a word
\* call adds one segment at the end of the words and leaves the sentences, a
\* sentence call adds one at the end of the sentences and leaves the words,
\* and the renderings leave both as they are: rendering again with the same
\* argument gives the same text, the word rendering is the same with the
\* sentences taken away and the sentence rendering with the words taken away.
C17_TwoIndependentSequences ==
    /\ [](/\ \A i \in 1..Len(subtitle.words) : subtitle.words[i].text \in WordTexts
          /\ \A i \in 1..Len(subtitle.sentences) : subtitle.sentences[i].text \in SentenceTexts
          /\ returned.kind = "generate_word_subtitle" =>
                returned.value =
                    generate_word_subtitle([subtitle EXCEPT !.sentences = <<>>], returned.arg[1])
          /\ returned.kind = "generate_sentence_subtitle" =>
                returned.value = generate_sentence_subtitle([subtitle EXCEPT !.words = <<>>]))
    /\ [][SubtitleFrame]_vars

C17_Witness ==
    /\ Len(subtitle.words) = 2
    /\ Len(subtitle.sentences) = 2
    /\ returned.kind = "generate_word_subtitle"
    /\ Len(CuesOf(returned.value)) = 2

RECURSIVE Flatten(_)
Flatten(seqs) == IF seqs = <<>> THEN <<>> ELSE Head(seqs) \o Flatten(Tail(seqs))

\* C18: for words_in_cue >= 1 the cues of generate_word_subtitle split the
\* words into groups that follow one another: the words of the cues, one cue
\* after the other, are the trimmed words in arrival order, none missing and
\* none twice; every cue holds at least one word and at most words_in_cue;
\* no words give the empty text.
C18_CuesPartitionWords ==
    (returned.kind = "generate_word_subtitle" /\ returned.arg[1] >= 1) =>
        LET cues == CuesOf(returned.value)
            groups == [k \in 1..Len(cues) |-> WordsOfCue(cues[k])]
        IN  /\ Flatten(groups) = [i \in 1..Len(subtitle.words) |-> strip(subtitle.words[i].text)]
            /\ \A k \in 1..Len(groups) :
                  /\ Len(groups[k]) >= 1
                  /\ Len(groups[k]) <= returned.arg[1]
                  /\ \A i \in 1..Len(groups[k]) : groups[k][i] # <<>>
            /\ subtitle.words = <<>> => returned.value = <<>>

\* three words, none of them punctuation, two to a cue: the last cue is
\* closed with one word
C18_Witness ==
    /\ returned.kind = "generate_word_subtitle"
    /\ returned.arg = <<2>>
    /\ Len(subtitle.words) = 3
    /\ \A i \in 1..3 : strip(subtitle.words[i].text) \notin Punctuation
    /\ Len(CuesOf(returned.value)) = 2
    /\ Len(WordsOfCue(CuesOf(returned.value)[1])) = 2
    /\ Len(WordsOfCue(CuesOf(returned.value)[2])) = 1

\* the number a string of decimal digits denotes
RECURSIVE ParseDecimal(_)
ParseDecimal(digits) ==
    IF digits = <<>> THEN 0
    ELSE 10 * ParseDecimal(SubSeq(digits, 1, Len(digits) - 1))
           + (CHOOSE d \in 0..9 : DigitChar(d) = digits[Len(digits)])

AllDigits(str) == \A i \in 1..Len(str) : str[i] \in Digit

\* the fields of a clock string: hours, minutes, whole seconds, thousandths
ClockFields(str) == PySplit(str, <<":">>)
SecondsParts(str) == PySplit(ClockFields(str)[3], <<".">>)

\* the string has the shape H..H:MM:SS.mmm, with at least two hour digits
IsClockString(str) ==
    /\ Len(ClockFields(str)) = 3
    /\ Len(ClockFields(str)[1]) >= 2 /\ AllDigits(ClockFields(str)[1])
    /\ Len(ClockFields(str)[2]) = 2 /\ AllDigits(ClockFields(str)[2])
    /\ Len(ClockFields(str)[3]) = 6
    /\ Len(SecondsParts(str)) = 2
    /\ Len(SecondsParts(str)[1]) = 2 /\ AllDigits(SecondsParts(str)[1])
    /\ Len(SecondsParts(str)[2]) = 3 /\ AllDigits(SecondsParts(str)[2])

HoursField(str) == ParseDecimal(ClockFields(str)[1])
MinutesField(str) == ParseDecimal(ClockFields(str)[2])
\* the seconds field, in thousandths of a second
SecondsField(str) ==
    1000 * ParseDecimal(SecondsParts(str)[1]) + ParseDecimal(SecondsParts(str)[2])

Abs(x) == IF x < 0 THEN -x ELSE x

\* C15: format_timestamp gives hours:minutes:seconds with the hours
\* floor(ticks / 10^7 / 3600) on two digits (more from 100 hours on), the
\* minutes floor(ticks / 10^7 / 60) mod 60 on two digits and the seconds
\* (ticks / 10^7) mod 60 on six characters with three decimals (the nearest
\* thousandth); for a whole number of milliseconds the three fields add up
\* to exactly the tick count; 0 gives 00:00:00.000 and 10,000,000 gives
\* 00:00:01.000.
C15_TimestampDecomposition ==
    returned.kind = "format_timestamp" =>
        LET str == returned.value
        IN  /\ IsClockString(str)
            /\ HoursField(str) = ticks.sec \div 3600
            /\ HoursField(str) < 100 => Len(ClockFields(str)[1]) = 2
            /\ MinutesField(str) = (ticks.sec \div 60) % 60
            /\ 2 * Abs(SecondsField(str) * TicksPerMilli
                        - ((ticks.sec % 60) * TicksPerSecond + ticks.sub)) <= TicksPerMilli
            /\ ticks.sub % TicksPerMilli = 0 =>
                  /\ SecondsField(str) < 60000
                  /\ ((HoursField(str) * 60 + MinutesField(str)) * 60) * 1000 + SecondsField(str)
                        = ticks.sec * 1000 + ticks.sub \div TicksPerMilli
            /\ ticks = Ticks(0) =>
                  str = <<"0", "0", ":", "0", "0", ":", "0", "0", ".", "0", "0", "0">>
            /\ ticks = Ticks(10000000) =>
                  str = <<"0", "0", ":", "0", "0", ":", "0", "1", ".", "0", "0", "0">>

\* 1 h 59 min 59.999 s: every field is at work
C15_Witness ==
    /\ returned.kind = "format_timestamp"
    /\ ticks = [sec |-> 7199, sub |-> 9990000]
    /\ returned.value = <<"0", "1", ":", "5", "9", ":", "5", "9", ".", "9", "9", "9">>

\* C20: for every tick count the string is a valid clock time: the minutes
\* are between 00 and 59 and the seconds field is below 60.000.
C20_ValidClockTime ==
    returned.kind = "format_timestamp" =>
        /\ IsClockString(returned.value)
        /\ MinutesField(returned.value) \in 0..59
        /\ SecondsField(returned.value) < 60000

\* stream() is over without an error: the turn.end frame or the close of the
\* socket was read and nothing of a metadata frame is left to iterate
StreamExhausted ==
    /\ outcome = Success
    /\ read # <<>>
    /\ IsTurnEndFrame(Last(read)) \/ Last(read).type = "CLOSED"
    /\ items = <<>>

\* every event of the stream went through the loop body of text_to_speech
AllConsumed ==
    Len(audio_chunks) + Len(subtitle.words) + Len(subtitle.sentences) = Len(events)

\* a result comes into being only in a step taken when the stream is over
RenderOnlyAtEnd ==
    returned' # returned => returned = NoReturn /\ StreamExhausted /\ AllConsumed

\* C14: text_to_speech renders only when the event stream is exhausted:
\* there is a result only when the stream has ended without an error and
\* every event was consumed; when the stream has failed, NoAudioReceived at
\* its end included, nothing was rendered and nothing is returned.
C14_RenderAfterStream ==
    /\ [](returned # NoReturn =>
            /\ returned.kind = "text_to_speech"
            /\ StreamExhausted
            /\ AllConsumed)
    /\ [](outcome \notin {NoOutcome, Success} => returned = NoReturn)
    /\ [][RenderOnlyAtEnd]_vars

C14_Witness ==
    /\ returned.kind = "text_to_speech"
    /\ returned.value[1] = <<1, 2, 3>>
    /\ Len(CuesOf(returned.value[2])) = 1
    /\ CuesOf(returned.value[2])[1].text = <<"H", "e", "l", "l", "o">>
    /\ returned.value[3] = <<>>

====
